---------------------------- MODULE Spec2Model ----------------------------
(***************************************************************************)
(* Model of the PsychoJS core fragment: EventManager (keyboard buffer,     *)
(* key-name translation) and Window (log-on-flip queue, flip callback,     *)
(* deferred stimulus updates).                                             *)
(*                                                                         *)
(* Both classes run on the browser's single thread: every handler and      *)
(* every public method runs to completion, so each is one action.          *)
(***************************************************************************)
EXTENDS Integers, Sequences, FiniteSets, TLC

(***************************************************************************)
(* Bounds of the model.                                                    *)
(***************************************************************************)
MaxEvents == 3      \* keydown events captured in one behaviour
MaxKeyList == 2     \* length of a keyList given to getKeys
MaxMsgs == 2        \* logOnFlip calls in one behaviour
MaxRegs == 2        \* callOnFlip calls between two flips
MaxFrames == 3      \* render() calls in one behaviour
MaxTrList == 3      \* length of a list given to _pyglet2w3c on its own
MaxMouseTime == 4   \* mouse events in one behaviour, one per unit of time
MaxResizes == 2     \* _onResize calls between two changes of the extents

(***************************************************************************)
(* JavaScript values.  A missing property reads as undefined; used as a    *)
(* property key, undefined is coerced to the string "undefined".           *)
(***************************************************************************)
Undefined == "undefined"

(***************************************************************************)
(* The static tables, entry by entry.  pygletEntries is listed in the      *)
(* order in which for-in enumerates the object: the integer-like keys      *)
(* "0".."9" in ascending order first, then the other keys in the order     *)
(* they are written.                                                       *)
(***************************************************************************)
keycodeEntries ==
  <<
    <<49, "Digit1">>, <<50, "Digit2">>, <<51, "Digit3">>, <<52, "Digit4">>,
    <<53, "Digit5">>, <<54, "Digit6">>, <<55, "Digit7">>, <<56, "Digit8">>,
    <<57, "Digit9">>, <<48, "Digit0">>, <<65, "KeyA">>, <<66, "KeyB">>,
    <<67, "KeyC">>, <<68, "KeyD">>, <<69, "KeyE">>, <<70, "KeyF">>,
    <<71, "KeyG">>, <<72, "KeyH">>, <<73, "KeyI">>, <<74, "KeyJ">>,
    <<75, "KeyK">>, <<76, "KeyL">>, <<77, "KeyM">>, <<78, "KeyN">>,
    <<79, "KeyO">>, <<80, "KeyP">>, <<81, "KeyQ">>, <<82, "KeyR">>,
    <<83, "KeyS">>, <<84, "KeyT">>, <<85, "KeyU">>, <<86, "KeyV">>,
    <<87, "KeyW">>, <<88, "KeyX">>, <<89, "KeyY">>, <<90, "KeyZ">>,
    <<188, "Comma">>, <<190, "Period">>, <<186, "Semicolon">>, <<222, "Quote">>,
    <<219, "BracketLeft">>, <<221, "BracketRight">>, <<192, "Backquote">>, <<220, "Backslash">>,
    <<189, "Minus">>, <<187, "Equal">>, <<144, "NumLock">>, <<96, "Numpad0">>,
    <<97, "Numpad1">>, <<98, "Numpad2">>, <<99, "Numpad3">>, <<100, "Numpad4">>,
    <<101, "Numpad5">>, <<102, "Numpad6">>, <<103, "Numpad7">>, <<104, "Numpad8">>,
    <<105, "Numpad9">>, <<107, "NumpadAdd">>, <<194, "NumpadComma">>, <<194, "NumpadComma">>,
    <<110, "NumpadDecimal">>, <<110, "NumpadDecimal">>, <<111, "NumpadDivide">>, <<13, "NumpadEnter">>,
    <<12, "NumpadEqual">>, <<106, "NumpadMultiply">>, <<109, "NumpadSubtract">>, <<37, "ArrowLeft">>,
    <<38, "ArrowUp">>, <<39, "ArrowRight">>, <<40, "ArrowDown">>, <<27, "Escape">>,
    <<32, "Space">>
  >>

pygletEntries ==
  <<
    <<"0", "Digit0">>, <<"1", "Digit1">>, <<"2", "Digit2">>, <<"3", "Digit3">>,
    <<"4", "Digit4">>, <<"5", "Digit5">>, <<"6", "Digit6">>, <<"7", "Digit7">>,
    <<"8", "Digit8">>, <<"9", "Digit9">>, <<"grave", "Backquote">>, <<"backslash", "Backslash">>,
    <<"backspace", "Backspace">>, <<"bracketleft", "BracketLeft">>, <<"bracketright", "BracketRight">>, <<"comma", "Comma">>,
    <<"equal", "Equal">>, <<"a", "KeyA">>, <<"b", "KeyB">>, <<"c", "KeyC">>,
    <<"d", "KeyD">>, <<"e", "KeyE">>, <<"f", "KeyF">>, <<"g", "KeyG">>,
    <<"h", "KeyH">>, <<"i", "KeyI">>, <<"j", "KeyJ">>, <<"k", "KeyK">>,
    <<"l", "KeyL">>, <<"m", "KeyM">>, <<"n", "KeyN">>, <<"o", "KeyO">>,
    <<"p", "KeyP">>, <<"q", "KeyQ">>, <<"r", "KeyR">>, <<"s", "KeyS">>,
    <<"t", "KeyT">>, <<"u", "KeyU">>, <<"v", "KeyV">>, <<"w", "KeyW">>,
    <<"x", "KeyX">>, <<"y", "KeyY">>, <<"z", "KeyZ">>, <<"minus", "Minus">>,
    <<"period", "Period">>, <<"apostrophe", "Quote">>, <<"semicolon", "Semicolon">>, <<"slash", "Slash">>,
    <<"escape", "Escape">>, <<"loption", "AltLeft">>, <<"roption", "AltRight">>, <<"capslock", "CapsLock">>,
    <<"lcontrol", "ControlLeft">>, <<"rcontrol", "ControlRight">>, <<"return", "Enter">>, <<"lcommand", "MetaLeft">>,
    <<"rcommand", "MetaRight">>, <<"lshift", "ShiftLeft">>, <<"rshift", "ShiftRight">>, <<"space", "Space">>,
    <<"tab", "Tab">>, <<"down", "ArrowDown">>, <<"left", "ArrowLeft">>, <<"right", "ArrowRight">>,
    <<"up", "ArrowUp">>, <<"num_0", "Numpad0">>, <<"num_1", "Numpad1">>, <<"num_2", "Numpad2">>,
    <<"num_3", "Numpad3">>, <<"num_4", "Numpad4">>, <<"num_5", "Numpad5">>, <<"num_6", "Numpad6">>,
    <<"num_7", "Numpad7">>, <<"num_8", "Numpad8">>, <<"num_9", "Numpad9">>, <<"num_decimal", "NumpadDecimal">>,
    <<"num_enter", "NumpadEnter">>, <<"num_add", "NumpadAdd">>, <<"num_subtract", "NumpadSubtract">>, <<"num_multiply", "NumpadMultiply">>,
    <<"num_divide", "NumpadDivide">>, <<"num_equal", "NumpadEqual">>, <<"num_numlock", "NumpadNumlock">>
  >>

RECURSIVE TableOf(_, _)
\* the object built by writing the first n entries in order: a later entry
\* with the same key overwrites an earlier one (f @@ g lets f win)
TableOf(entries, n) ==
  IF n = 0 THEN << >>
  ELSE (entries[n][1] :> entries[n][2]) @@ TableOf(entries, n - 1)

keycodeMap == TableOf(keycodeEntries, Len(keycodeEntries))

pygletMap == TableOf(pygletEntries, Len(pygletEntries))

\* the constructor's loop: reverse[pygletMap[keyName]] = keyName, in for-in
\* order, the last write to a code winning
reversePygletMap ==
  TableOf([i \in 1..Len(pygletEntries) |->
             <<pygletMap[pygletEntries[i][1]], pygletEntries[i][1]>>],
          Len(pygletEntries))

\* the properties that an object literal inherits from Object.prototype:
\* functions, written here as the strings they print as
ObjectPrototype ==
  [constructor    |-> "function Object",
   hasOwnProperty |-> "function hasOwnProperty",
   toString       |-> "function toString",
   valueOf        |-> "function valueOf"]

\* obj[n] for a number n: no inherited property has a number for its name
LookupNumber(table, n) == IF n \in DOMAIN table THEN table[n] ELSE Undefined

\* obj[k] for a table written as an object literal: the own property, else
\* the inherited one, else undefined
Lookup(table, k) ==
  IF k \in DOMAIN table THEN table[k]
  ELSE IF k \in DOMAIN ObjectPrototype THEN ObjectPrototype[k]
  ELSE Undefined

\* Array.prototype.indexOf, 1-based: 0 stands for JavaScript's -1
IndexOf(list, x) ==
  IF \E i \in 1..Len(list) : list[i] = x
  THEN CHOOSE i \in 1..Len(list) : list[i] = x /\ \A j \in 1..(i - 1) : list[j] # x
  ELSE 0

\* a _pyglet2w3c that returns the names as they are
_pyglet2w3cSame(pygletKeyList) == pygletKeyList

\* EventManager._pyglet2w3c
_pyglet2w3c(pygletKeyList) ==
  [i \in 1..Len(pygletKeyList) |->
     IF Lookup(pygletMap, pygletKeyList[i]) = Undefined
     THEN pygletKeyList[i]
     ELSE Lookup(pygletMap, pygletKeyList[i])]

(***************************************************************************)
(* Inputs of the keyboard model.                                           *)
(*   KeyKinds: the (code, keyCode) pairs a keydown event may carry:        *)
(*     Enter/13   code with a pyglet name ("return"); its keyCode 13 is    *)
(*                mapped to another code, NumpadEnter                      *)
(*     F1/112     code without pyglet name, keyCode not in the keycode map *)
(*     -/13       no native code (browser without KeyboardEvent.code)      *)
(*   KeyNames: entries of a keyList: two pyglet names and a W3C code that  *)
(*     has no pyglet name.                                                 *)
(***************************************************************************)
KeyKinds ==
  { [code |-> "Enter", keyCode |-> 13],
    [code |-> "F1", keyCode |-> 112],
    [code |-> Undefined, keyCode |-> 13] }

KeyNames == {"return", "num_enter", "F1"}

RECURSIVE SeqsUpTo(_, _)
SeqsUpTo(S, n) ==
  IF n = 0 THEN { << >> }
  ELSE LET shorter == SeqsUpTo(S, n - 1)
       IN  shorter \cup { Append(s, x) : s \in shorter, x \in S }

KeyLists == SeqsUpTo(KeyNames, MaxKeyList)

EventIds == 1..MaxEvents

MsgIds == 1..MaxMsgs

Stims == {"s1", "s2"}

\* the names given to _pyglet2w3c on its own: pyglet names, a W3C code, and
\* a name that is a property of Object.prototype
TrNames == {"return", "num_enter", "F1", "toString"}

TrLists == SeqsUpTo(TrNames, MaxTrList)

\* the mouse: the buttons [left, center, right], the positions of the
\* pointer and the wheel movements (deltaX, deltaY) of the events
Buttons == 0..2

Positions == { <<0, 0>>, <<3, 4>> }

WheelDeltas == { <<1, -2>>, <<0, 3>> }

\* the extents of the browser window
Widths == {800, 801, 1024, 1365}

Heights == {600, 601, 768}

\* the functions given to callOnFlip, by what they do to the Window:
\*   "note"  nothing (typically it resets a clock of the experiment)
\*   "log"   calls logOnFlip
\*   "again" calls callOnFlip("note", ...) with the arguments it was given
FlipFns == {"note", "log", "again"}

FlipArgs == { <<"x">>, <<"y">> }

VARIABLES
  keyBuffer,    \* EventManager._keyBuffer: sequence of key events
  refTime,      \* last reading of MonotonicClock.getReferenceTime()
  captured,     \* history: number of keydown events captured so far
  returnedBy,   \* history: event id -> number of getKeys results holding it
  cleared,      \* history: ids of the events removed by clearKeys
  lastCall,     \* history: the last EventManager operation, with its result
  afterDrain,   \* history: the operation before the last one was
                \* getKeys() with no keyList and timeStamped = false
  msgToBeLogged,    \* Window._msgToBeLogged
  drawList,         \* Window._drawList
  frameCount,       \* Window._frameCount
  flipCallback,     \* Window._flipCallback
  flipCallbackArgs, \* Window._flipCallbackArgs
  winNeedUpdate,    \* Window._needUpdate
  rootChildren,     \* children of Window._rootContainer, in paint order
  needUpdate,       \* stimulus -> its _needUpdate flag
  logger,           \* the calls received by psychoJS.logger.log, in order
  enqueued,         \* history: number of logOnFlip calls so far
  enqueuedAt,       \* history: message -> frameCount when it was enqueued
  pending,          \* history: the callOnFlip registrations since the last flip
  regFrame,         \* history: frameCount at the last callOnFlip call
  invocations,      \* history: invocations of the callback since that call
  justRendered,     \* history: the last Window operation was render()
  lastRender,       \* history: what the last render() did
  mouseInfo,        \* EventManager._mouseInfo; a clock is its last reset time
  monotonicTime,    \* psychoJS._monotonicClock.getTime() at the last mouse event
  mouseOp,          \* history: the last mouse event and its button
  wheelReceived,    \* history: wheel movement -> number of wheel events with it
  trIn,             \* the list last given to _pyglet2w3c
  trOut,            \* what _pyglet2w3c returned for it
  trCode,           \* history: the W3C code that trIn was made from, if any
  innerWidth,       \* window.innerWidth
  innerHeight,      \* window.innerHeight
  size,             \* Window._size
  rendererSize,     \* the size given to Window._renderer.resize
  rootContainer,    \* position and scale.y of Window._rootContainer
  resizeCalls       \* history: calls of _onResize since the extents changed

keyVars == <<keyBuffer, captured, returnedBy, cleared, lastCall, afterDrain>>

winVars == <<msgToBeLogged, drawList, frameCount, flipCallback, flipCallbackArgs,
             winNeedUpdate, rootChildren, needUpdate, logger, enqueued,
             enqueuedAt, pending, regFrame, invocations, justRendered, lastRender>>

mouseVars == <<mouseInfo, monotonicTime, mouseOp, wheelReceived>>

trVars == <<trIn, trOut, trCode>>

sizeVars == <<innerWidth, innerHeight, size, rendererSize, rootContainer, resizeCalls>>

vars == <<keyBuffer, refTime, captured, returnedBy, cleared, lastCall, afterDrain,
          msgToBeLogged, drawList, frameCount, flipCallback, flipCallbackArgs,
          winNeedUpdate, rootChildren, needUpdate, logger, enqueued,
          enqueuedAt, pending, regFrame, invocations, justRendered, lastRender,
          mouseInfo, monotonicTime, mouseOp, wheelReceived, trIn, trOut, trCode,
          innerWidth, innerHeight, size, rendererSize, rootContainer, resizeCalls>>

NoCall == [op |-> "none", given |-> FALSE, keyList |-> << >>, timeStamped |-> FALSE,
           keys |-> << >>]

IsDrain(call) == call.op = "getKeys" /\ ~call.given /\ ~call.timeStamped

\* a new Clock, and the mouse info of the constructor
NewClock(now) == now

NewMouseInfo(now) ==
  [pos |-> <<0, 0>>,
   wheelRel |-> <<0, 0>>,
   buttons |-> [pressed |-> [b \in Buttons |-> 0],
                clocks |-> [b \in Buttons |-> NewClock(now)],
                times |-> [b \in Buttons |-> 0]],
   moveClock |-> NewClock(now)]

NoMouseOp == [op |-> "none", button |-> 0]

\* n / 2.0, as the whole part and the number of halves left
Half(n) == [whole |-> n \div 2, halves |-> n % 2]

\* a new PIXI.Container
NewContainer == [position |-> <<Half(0), Half(0)>>, scaleY |-> 1]

\* an _onResize that mirrors the y axis again at every call
_onResizeMirror(win, width, height) ==
  [size |-> <<width, height>>,
   rendererSize |-> <<width, height>>,
   rootContainer |-> [position |-> <<Half(width), Half(height)>>,
                      scaleY |-> 0 - win.rootContainer.scaleY]]

\* Window._onResize(win), width and height being window.innerWidth and
\* window.innerHeight
_onResize(win, width, height) ==
  [size |-> <<width, height>>,
   rendererSize |-> <<width, height>>,
   rootContainer |-> [position |-> <<Half(width), Half(height)>>,
                      scaleY |-> -1]]

\* Window._setupPixi: the renderer has the size of the browser window, and
\* _onResize is called on the new root container
_setupPixi(width, height) ==
  _onResize([size |-> <<width, height>>, rendererSize |-> <<width, height>>,
             rootContainer |-> NewContainer], width, height)

\* the extents of the browser window when the Window is constructed
StartWidth == CHOOSE w \in Widths : \A v \in Widths : w <= v

StartHeight == CHOOSE h \in Heights : \A v \in Heights : h <= v

NoRender == [drawnPending |-> {}, updated |-> << >>,
             registered |-> << >>, invoked |-> << >>, afterFlush |-> << >>]

\* EventManager.constructor and Window.constructor
Init ==
  /\ keyBuffer = << >>
  /\ refTime = 0
  /\ captured = 0
  /\ returnedBy = [id \in EventIds |-> 0]
  /\ cleared = {}
  /\ lastCall = NoCall
  /\ afterDrain = FALSE
  /\ msgToBeLogged = << >>
  /\ drawList = << >>
  /\ frameCount = 0
  /\ flipCallback = Undefined
  /\ flipCallbackArgs = Undefined
  /\ winNeedUpdate = FALSE
  /\ rootChildren = << >>
  /\ needUpdate = [s \in Stims |-> FALSE]
  /\ logger = << >>
  /\ enqueued = 0
  /\ enqueuedAt = [m \in MsgIds |-> 0]
  /\ pending = << >>
  /\ regFrame = 0
  /\ invocations = 0
  /\ justRendered = FALSE
  /\ lastRender = NoRender
  /\ monotonicTime = 0
  /\ mouseInfo = NewMouseInfo(0)
  /\ mouseOp = NoMouseOp
  /\ wheelReceived = [delta \in WheelDeltas |-> 0]
  /\ trIn = << >>
  /\ trOut = << >>
  /\ trCode = Undefined
  /\ innerWidth = StartWidth
  /\ innerHeight = StartHeight
  /\ size = _setupPixi(StartWidth, StartHeight).size
  /\ rendererSize = _setupPixi(StartWidth, StartHeight).rendererSize
  /\ rootContainer = _setupPixi(StartWidth, StartHeight).rootContainer
  /\ resizeCalls = 1

(***************************************************************************)
(* getKeys: the scan of the buffer.  The key event carries the history     *)
(* field id; src lists the ids of the events pushed to keys, in step with  *)
(* keys.                                                                   *)
(***************************************************************************)
\* the body of the for loop for one buffered event: the keyId, or undefined
KeyIdOf(key, given, keyList) ==
  IF given
  THEN LET index1 == IndexOf(keyList, key.code)
           index == IF index1 = 0
                    THEN IndexOf(keyList, LookupNumber(keycodeMap, key.keyCode))
                    ELSE index1
       IN  IF index > 0 THEN Lookup(reversePygletMap, keyList[index]) ELSE Undefined
  ELSE Lookup(reversePygletMap, key.code)

\* a getKeys that leaves the returned key presses in the buffer as well
GetKeysStepKeep(acc, key, keyId, timeStamped) ==
  IF keyId # Undefined
  THEN [acc EXCEPT !.keys = Append(@, IF timeStamped
                                     THEN <<keyId, key.timestamp>>
                                     ELSE keyId),
                   !.src = Append(@, key.id),
                   !.newBuffer = Append(@, key)]
  ELSE [acc EXCEPT !.newBuffer = Append(@, key)]

\* a getKeys that forgets to keep the key presses it does not return
GetKeysStepDrop(acc, key, keyId, timeStamped) ==
  IF keyId # Undefined
  THEN [acc EXCEPT !.keys = Append(@, IF timeStamped
                                     THEN <<keyId, key.timestamp>>
                                     ELSE keyId),
                   !.src = Append(@, key.id)]
  ELSE acc

\* the end of the loop body: the key press goes to keys or stays in the buffer
GetKeysStep(acc, key, keyId, timeStamped) ==
  IF keyId # Undefined
  THEN [acc EXCEPT !.keys = Append(@, IF timeStamped
                                     THEN <<keyId, key.timestamp>>
                                     ELSE keyId),
                   !.src = Append(@, key.id)]
  ELSE [acc EXCEPT !.newBuffer = Append(@, key)]

RECURSIVE GetKeysLoop(_, _, _, _, _)
\* the for loop of getKeys over the first n events of the buffer
GetKeysLoop(buffer, n, given, keyList, timeStamped) ==
  IF n = 0 THEN [newBuffer |-> << >>, keys |-> << >>, src |-> << >>]
  ELSE GetKeysStep(GetKeysLoop(buffer, n - 1, given, keyList, timeStamped),
                   buffer[n], KeyIdOf(buffer[n], given, keyList), timeStamped)

\* EventManager.getKeys({keyList, timeStamped})
getKeys(given, pygletKeyList, timeStamped) ==
  \E r \in { GetKeysLoop(keyBuffer, Len(keyBuffer), given,
                           IF given THEN _pyglet2w3c(pygletKeyList) ELSE << >>,
                           timeStamped) } :
      /\ keyBuffer' = r.newBuffer
      /\ returnedBy' = [id \in EventIds |->
                          returnedBy[id] + Cardinality({i \in 1..Len(r.src) : r.src[i] = id})]
      /\ lastCall' = [op |-> "getKeys", given |-> given, keyList |-> pygletKeyList,
                      timeStamped |-> timeStamped, keys |-> r.keys]
      /\ afterDrain' = IsDrain(lastCall)
      /\ UNCHANGED <<refTime, captured, cleared, winVars, mouseVars, trVars, sizeVars>>

GetKeys ==
  \/ \E timeStamped \in BOOLEAN : getKeys(FALSE, << >>, timeStamped)
  \/ \E keyList \in KeyLists, timeStamped \in BOOLEAN : getKeys(TRUE, keyList, timeStamped)

\* EventManager.clearKeys
clearKeys(op) ==
  /\ keyBuffer' = << >>
  /\ cleared' = cleared \cup { keyBuffer[i].id : i \in 1..Len(keyBuffer) }
  /\ lastCall' = [NoCall EXCEPT !.op = op]
  /\ afterDrain' = IsDrain(lastCall)
  /\ UNCHANGED <<refTime, captured, returnedBy, winVars, mouseVars, trVars, sizeVars>>

ClearKeys == clearKeys("clearKeys")

\* EventManager.clearEvents(attribs): attribs is ignored
ClearEvents == clearKeys("clearEvents")

\* MonotonicClock.getReferenceTime(): every reading is later than the one
\* before it
ClockRead == refTime + 1

\* the keydown listener added by EventManager._addKeyListeners; the
\* timestamp, getReferenceTime() / 1000, is kept in units of 1/1000 s; the
\* key field of the event, which nothing reads, is left out
Keydown ==
  /\ captured < MaxEvents
  /\ \E e \in KeyKinds, t \in {ClockRead} :
       /\ refTime' = t
       /\ keyBuffer' = Append(keyBuffer, [code |-> e.code, keyCode |-> e.keyCode,
                                          timestamp |-> t, id |-> captured + 1])
       /\ captured' = captured + 1
       /\ lastCall' = [NoCall EXCEPT !.op = "keydown"]
       /\ afterDrain' = IsDrain(lastCall)
  /\ UNCHANGED <<returnedBy, cleared, winVars, mouseVars, trVars, sizeVars>>

NextKeys == Keydown \/ GetKeys \/ ClearKeys \/ ClearEvents

SpecKeys == Init /\ [][NextKeys]_vars

(***************************************************************************)
(* Window.                                                                 *)
(* A message is identified by its msg field, a stimulus by its name; the   *)
(* level and obj of a message are passed to the logger unchanged.          *)
(***************************************************************************)
Range(seq) == { seq[i] : i \in 1..Len(seq) }

\* Window.logOnFlip({msg, level, obj}): the queue after the call
logOnFlip(queue, msg) == Append(queue, [msg |-> msg])

LogOnFlip ==
  /\ enqueued < MaxMsgs
  /\ msgToBeLogged' = logOnFlip(msgToBeLogged, enqueued + 1)
  /\ enqueued' = enqueued + 1
  /\ enqueuedAt' = [enqueuedAt EXCEPT ![enqueued + 1] = frameCount]
  /\ justRendered' = FALSE
  /\ UNCHANGED <<refTime, keyVars, mouseVars, trVars, sizeVars,
                 drawList, frameCount, flipCallback, flipCallbackArgs,
                 winNeedUpdate, rootChildren, needUpdate, logger, pending,
                 regFrame, invocations, lastRender>>

\* a callOnFlip that loses the arguments
callOnFlipNoArgs(flipFunction, flipArgs) ==
  [flipCallback |-> flipFunction, flipCallbackArgs |-> << >>]

\* Window.callOnFlip(flipCallback, ...flipCallbackArgs): the two fields it sets
callOnFlip(flipFunction, flipArgs) ==
  [flipCallback |-> flipFunction, flipCallbackArgs |-> flipArgs]

CallOnFlip ==
  /\ Len(pending) < MaxRegs
  /\ \E fn \in FlipFns, args \in FlipArgs :
       /\ flipCallback' = callOnFlip(fn, args).flipCallback
       /\ flipCallbackArgs' = callOnFlip(fn, args).flipCallbackArgs
       /\ pending' = Append(pending, [fn |-> fn, args |-> args])
  /\ regFrame' = frameCount
  /\ invocations' = 0
  /\ justRendered' = FALSE
  /\ UNCHANGED <<refTime, keyVars, mouseVars, trVars, sizeVars,
                 msgToBeLogged, drawList, frameCount,
                 winNeedUpdate, rootChildren, needUpdate, logger, enqueued, enqueuedAt,
                 lastRender>>

\* Window.adjustScreenSize; fullscr is the value of the attribute of that
\* name when the method is called
AdjustScreenSize ==
  /\ \E fullscr \in BOOLEAN :
       IF fullscr
       THEN /\ winNeedUpdate' = TRUE
            /\ needUpdate' = [s \in Stims |-> IF s \in Range(drawList) THEN TRUE
                                              ELSE needUpdate[s]]
       ELSE UNCHANGED <<winNeedUpdate, needUpdate>>
  /\ justRendered' = FALSE
  /\ UNCHANGED <<refTime, keyVars, mouseVars, trVars, sizeVars,
                 msgToBeLogged, drawList, frameCount, flipCallback,
                 flipCallbackArgs, rootChildren, logger, enqueued, enqueuedAt,
                 pending, regFrame, invocations, lastRender>>

(***************************************************************************)
(* The stimuli are not part of Window: a stimulus enters the draw list     *)
(* and the root container when it is drawn, an attribute change flags it,  *)
(* and its _updateIfNeeded applies the pending change.                     *)
(***************************************************************************)
StimDraw ==
  /\ \E s \in Stims \ Range(drawList) :
       /\ drawList' = Append(drawList, s)
       /\ rootChildren' = Append(rootChildren, s)
  /\ justRendered' = FALSE
  /\ UNCHANGED <<refTime, keyVars, mouseVars, trVars, sizeVars,
                 msgToBeLogged, frameCount, flipCallback,
                 flipCallbackArgs, winNeedUpdate, needUpdate, logger, enqueued,
                 enqueuedAt, pending, regFrame, invocations, lastRender>>

MarkNeedsUpdate ==
  /\ \E s \in Stims :
       /\ ~needUpdate[s]
       /\ needUpdate' = [needUpdate EXCEPT ![s] = TRUE]
  /\ justRendered' = FALSE
  /\ UNCHANGED <<refTime, keyVars, mouseVars, trVars, sizeVars,
                 msgToBeLogged, drawList, frameCount, flipCallback,
                 flipCallbackArgs, winNeedUpdate, rootChildren, logger, enqueued,
                 enqueuedAt, pending, regFrame, invocations, lastRender>>

StimUpdateIfNeeded(need, s) == [need EXCEPT ![s] = FALSE]

\* PIXI.Container.removeChild / addChild on the list of children
RemoveChild(children, c) == SelectSeq(children, LAMBDA x : x # c)

AddChild(children, c) == Append(RemoveChild(children, c), c)

\* a _refresh that updates every stimulus of the draw list
RefreshStimAll(st, stim) ==
  [children |-> AddChild(RemoveChild(st.children, stim), stim),
   needUpdate |-> StimUpdateIfNeeded(st.needUpdate, stim),
   updated |-> Append(st.updated, stim)]

\* a _refresh that skips the flagged stimuli
RefreshStimSkip(st, stim) == st

\* the body of the loop of Window._refresh for one stimulus of the draw list
RefreshStim(st, stim) ==
  IF st.needUpdate[stim]
  THEN [children |-> AddChild(RemoveChild(st.children, stim), stim),
        needUpdate |-> StimUpdateIfNeeded(st.needUpdate, stim),
        updated |-> Append(st.updated, stim)]
  ELSE st

RECURSIVE _refresh(_, _, _)
\* Window._refresh after the window's own _updateIfNeeded: the loop over the
\* first n stimuli of the draw list
_refresh(list, n, st) ==
  IF n = 0 THEN st
  ELSE RefreshStim(_refresh(list, n - 1, st), list[n])

\* a _writeLogOnFlip that reads the clock for every entry
_writeLogOnFlipPerEntry(queue, logTime, frame) ==
  [calls |-> [i \in 1..Len(queue) |->
                [msg |-> queue[i].msg, logTime |-> logTime + i - 1, frame |-> frame]],
   msgToBeLogged |-> << >>]

\* a _writeLogOnFlip that does not empty the queue
_writeLogOnFlipKeep(queue, logTime, frame) ==
  [calls |-> [i \in 1..Len(queue) |->
                [msg |-> queue[i].msg, logTime |-> logTime, frame |-> frame]],
   msgToBeLogged |-> queue]

\* Window._writeLogOnFlip: the calls made to the logger and the queue it leaves
_writeLogOnFlip(queue, logTime, frame) ==
  [calls |-> [i \in 1..Len(queue) |->
                [msg |-> queue[i].msg, logTime |-> logTime, frame |-> frame]],
   msgToBeLogged |-> << >>]

\* the test inverted
HasFlipCallbackNot(cb) == cb = Undefined

\* the test of Window.render before it calls the flip callback
HasFlipCallback(cb) == cb # Undefined

\* a render that calls the flip callback before it flushes the log queue
LogAndCallOnFlipCallbackFirst(queue, logTime, frame, logs, msg) ==
  LET flush == _writeLogOnFlip(IF logs THEN logOnFlip(queue, msg) ELSE queue,
                               logTime, frame)
  IN  [calls |-> flush.calls,
       afterFlush |-> flush.msgToBeLogged,
       msgToBeLogged |-> flush.msgToBeLogged]

\* "log and call on flip" in Window.render: _writeLogOnFlip, then the flip
\* callback; logs says that the callback is called and calls logOnFlip(msg)
LogAndCallOnFlip(queue, logTime, frame, logs, msg) ==
  LET flush == _writeLogOnFlip(queue, logTime, frame)
  IN  [calls |-> flush.calls,
       afterFlush |-> flush.msgToBeLogged,
       msgToBeLogged |-> IF logs
                         THEN logOnFlip(flush.msgToBeLogged, msg)
                         ELSE flush.msgToBeLogged]

\* Window.render
Render ==
  /\ frameCount < MaxFrames
  /\ (flipCallback = "log" => enqueued < MaxMsgs)
  /\ \E frame \in {frameCount + 1}, logTime \in {ClockRead} :
     \E called \in { HasFlipCallback(flipCallback) } :
     \E flush \in { LogAndCallOnFlip(msgToBeLogged, logTime, frame,
                                     called /\ flipCallback = "log", enqueued + 1) } :
     \E r \in { _refresh(drawList, Len(drawList),
                         [children |-> rootChildren, needUpdate |-> needUpdate,
                          updated |-> << >>]) } :
       /\ frameCount' = frame
       /\ refTime' = logTime
       /\ logger' = logger \o flush.calls
       \* the flip callback, by what the function does
       /\ IF called /\ flipCallback = "log"
          THEN /\ enqueued' = enqueued + 1
               /\ enqueuedAt' = [enqueuedAt EXCEPT ![enqueued + 1] = frame]
          ELSE UNCHANGED <<enqueued, enqueuedAt>>
       /\ msgToBeLogged' = flush.msgToBeLogged
       /\ IF called /\ flipCallback = "again"
          THEN /\ flipCallback' = callOnFlip("note", flipCallbackArgs).flipCallback
               /\ flipCallbackArgs' = callOnFlip("note", flipCallbackArgs).flipCallbackArgs
               /\ pending' = << [fn |-> "note", args |-> flipCallbackArgs] >>
               /\ regFrame' = frame
               /\ invocations' = 0
          ELSE /\ UNCHANGED <<flipCallback, flipCallbackArgs, regFrame>>
               /\ pending' = << >>
               /\ invocations' = IF called THEN invocations + 1 ELSE invocations
       \* _refresh
       /\ winNeedUpdate' = FALSE
       /\ rootChildren' = r.children
       /\ needUpdate' = r.needUpdate
       /\ lastRender' =
            [drawnPending |-> { s \in Range(rootChildren) : needUpdate[s] },
             updated |-> r.updated,
             registered |-> pending,
             invoked |-> IF called
                         THEN << [fn |-> flipCallback, args |-> flipCallbackArgs] >>
                         ELSE << >>,
             afterFlush |-> flush.afterFlush]
  /\ justRendered' = TRUE
  /\ UNCHANGED <<keyVars, mouseVars, trVars, sizeVars, drawList>>

\* the flip protocol: the log queue, the flip callback and the frames
NextFlip == LogOnFlip \/ CallOnFlip \/ Render

SpecFlip == Init /\ [][NextFlip]_vars

\* the deferred updates: the draw list, the flags and the frames
NextDraw == StimDraw \/ MarkNeedsUpdate \/ AdjustScreenSize \/ Render

SpecDraw == Init /\ [][NextDraw]_vars

(***************************************************************************)
(* The mouse listeners.  A clock is the time of its last reset, on the     *)
(* time line of the monotonic clock; one unit of time passes between two   *)
(* events.                                                                 *)
(***************************************************************************)
\* psychoJS._monotonicClock.getTime() when the next event is handled
GetTime == monotonicTime + 1

\* Clock.getLastResetTime() and Clock.reset()
GetLastResetTime(clock) == clock

ClockReset(clock, now) == now

\* a pointerdown listener that resets the clock of the button
pointerdownReset(info, button, now, pos) ==
  [info EXCEPT !.buttons.pressed[button] = 1,
               !.buttons.clocks[button] = ClockReset(@, now),
               !.buttons.times[button] = 0,
               !.pos = pos]

\* the "pointerdown" listener
pointerdown(info, button, now, pos) ==
  [info EXCEPT !.buttons.pressed[button] = 1,
               !.buttons.times[button] =
                  now - GetLastResetTime(info.buttons.clocks[button]),
               !.pos = pos]

\* the "pointerup" listener
pointerup(info, button, now, pos) ==
  [info EXCEPT !.buttons.pressed[button] = 0,
               !.buttons.times[button] =
                  now - GetLastResetTime(info.buttons.clocks[button]),
               !.pos = pos]

\* the "pointermove" listener
pointermove(info, now, pos) ==
  [info EXCEPT !.pos = pos,
               !.moveClock = ClockReset(@, now)]

\* a wheel listener that keeps the last movement only
wheelLast(info, deltaX, deltaY) ==
  [info EXCEPT !.wheelRel = <<deltaX, deltaY>>]

\* the "wheel" listener
wheel(info, deltaX, deltaY) ==
  [info EXCEPT !.wheelRel = <<@[1] + deltaX, @[2] + deltaY>>]

Pointerdown ==
  /\ monotonicTime < MaxMouseTime
  /\ \E button \in Buttons, pos \in Positions :
       /\ mouseInfo' = pointerdown(mouseInfo, button, GetTime, pos)
       /\ mouseOp' = [op |-> "pointerdown", button |-> button]
  /\ monotonicTime' = GetTime
  /\ UNCHANGED <<refTime, keyVars, winVars, trVars, sizeVars, wheelReceived>>

Pointerup ==
  /\ monotonicTime < MaxMouseTime
  /\ \E button \in Buttons, pos \in Positions :
       /\ mouseInfo' = pointerup(mouseInfo, button, GetTime, pos)
       /\ mouseOp' = [op |-> "pointerup", button |-> button]
  /\ monotonicTime' = GetTime
  /\ UNCHANGED <<refTime, keyVars, winVars, trVars, sizeVars, wheelReceived>>

Pointermove ==
  /\ monotonicTime < MaxMouseTime
  /\ \E pos \in Positions :
       mouseInfo' = pointermove(mouseInfo, GetTime, pos)
  /\ mouseOp' = [op |-> "pointermove", button |-> 0]
  /\ monotonicTime' = GetTime
  /\ UNCHANGED <<refTime, keyVars, winVars, trVars, sizeVars, wheelReceived>>

Wheel ==
  /\ monotonicTime < MaxMouseTime
  /\ \E delta \in WheelDeltas :
       /\ mouseInfo' = wheel(mouseInfo, delta[1], delta[2])
       /\ wheelReceived' = [wheelReceived EXCEPT ![delta] = @ + 1]
  /\ mouseOp' = [op |-> "wheel", button |-> 0]
  /\ monotonicTime' = GetTime
  /\ UNCHANGED <<refTime, keyVars, winVars, trVars, sizeVars>>

\* a user of getMouseInfo() resets the clock of a button
ButtonClockReset ==
  /\ monotonicTime < MaxMouseTime
  /\ \E button \in Buttons :
       /\ mouseInfo' = [mouseInfo EXCEPT
                          !.buttons.clocks[button] = ClockReset(@, GetTime)]
       /\ mouseOp' = [op |-> "reset", button |-> button]
  /\ monotonicTime' = GetTime
  /\ UNCHANGED <<refTime, keyVars, winVars, trVars, sizeVars, wheelReceived>>

NextMouse == Pointerdown \/ Pointerup \/ Pointermove \/ Wheel \/ ButtonClockReset

SpecMouse == Init /\ [][NextMouse]_vars

(***************************************************************************)
(* The translation of key names on its own.                                *)
(***************************************************************************)
\* _pyglet2w3c is given a list of names
Pyglet2w3c ==
  /\ \E pygletKeyList \in TrLists :
       /\ trIn' = pygletKeyList
       /\ trOut' = _pyglet2w3c(pygletKeyList)
  /\ trCode' = Undefined
  /\ UNCHANGED <<refTime, keyVars, winVars, mouseVars, sizeVars>>

\* a W3C code of the reverse map is turned into its pyglet name, and
\* _pyglet2w3c is given that name
RoundTrip ==
  /\ \E code \in DOMAIN reversePygletMap :
       /\ trCode' = code
       /\ trIn' = << reversePygletMap[code] >>
       /\ trOut' = _pyglet2w3c(<< reversePygletMap[code] >>)
  /\ UNCHANGED <<refTime, keyVars, winVars, mouseVars, sizeVars>>

NextTranslate == Pyglet2w3c \/ RoundTrip

SpecTranslate == Init /\ [][NextTranslate]_vars

(***************************************************************************)
(* The browser window and the resize listener.                             *)
(***************************************************************************)
\* the browser window gets other extents
ResizeViewport ==
  /\ \E width \in Widths, height \in Heights :
       /\ <<width, height>> # <<innerWidth, innerHeight>>
       /\ innerWidth' = width
       /\ innerHeight' = height
  /\ resizeCalls' = 0
  /\ UNCHANGED <<refTime, keyVars, winVars, mouseVars, trVars,
                 size, rendererSize, rootContainer>>

\* the "resize" or "orientationchange" listener: _onResize(this)
OnResize ==
  /\ resizeCalls < MaxResizes
  /\ \E win \in { _onResize([size |-> size, rendererSize |-> rendererSize,
                               rootContainer |-> rootContainer],
                              innerWidth, innerHeight) } :
       /\ size' = win.size
       /\ rendererSize' = win.rendererSize
       /\ rootContainer' = win.rootContainer
  /\ resizeCalls' = resizeCalls + 1
  /\ UNCHANGED <<refTime, keyVars, winVars, mouseVars, trVars, innerWidth, innerHeight>>

NextResize == ResizeViewport \/ OnResize

SpecResize == Init /\ [][NextResize]_vars

(***************************************************************************)
(* Properties of the key buffer (SpecKeys).                                *)
(***************************************************************************)
\* the filter of getKeys({keyList}): the code of the event, or the keycode-map
\* translation of its keyCode, is in the normalized keyList
InKeyList(key, pygletKeyList) ==
  \/ key.code \in Range(_pyglet2w3c(pygletKeyList))
  \/ LookupNumber(keycodeMap, key.keyCode) \in Range(_pyglet2w3c(pygletKeyList))

BufferIds == [i \in 1..Len(keyBuffer) |-> keyBuffer[i].id]

\* C1: after getKeys({keyList}) every buffered event that does not match the
\* filter is still in the buffer, and these events keep their relative order.
C1_UnmatchedKept ==
  [][(lastCall'.op = "getKeys" /\ lastCall'.given)
       => SelectSeq(keyBuffer', LAMBDA k : ~InKeyList(k, lastCall'.keyList))
          = SelectSeq(keyBuffer, LAMBDA k : ~InKeyList(k, lastCall'.keyList))]_vars

\* three events were captured; the last call, with a keyList, returned the
\* second one and kept the first and the third, which do not match, in order
C1_Witness ==
  /\ lastCall.op = "getKeys" /\ lastCall.given
  /\ captured = 3
  /\ Len(lastCall.keys) = 1
  /\ returnedBy[2] = 1
  /\ BufferIds = <<1, 3>>
  /\ \A i \in 1..Len(keyBuffer) : ~InKeyList(keyBuffer[i], lastCall.keyList)

\* C2: after getKeys({keyList}) the buffer holds exactly the unmatched events:
\* every matched event is removed and contributes one entry to the result.
C2_ExactlyUnmatched ==
  [][(lastCall'.op = "getKeys" /\ lastCall'.given)
       => /\ keyBuffer' = SelectSeq(keyBuffer, LAMBDA k : ~InKeyList(k, lastCall'.keyList))
          /\ Len(lastCall'.keys)
               = Len(SelectSeq(keyBuffer, LAMBDA k : InKeyList(k, lastCall'.keyList)))]_vars

\* C3: after getKeys() with no keyList the key buffer is empty.
C3_BufferCleared ==
  (lastCall.op = "getKeys" /\ ~lastCall.given) => keyBuffer = << >>

\* C4: getKeys() with no keyList and timeStamped = false, followed at once by
\* a second getKeys() with no keyList: the second call returns an empty list.
C4_SecondDrainEmpty ==
  (afterDrain /\ lastCall.op = "getKeys" /\ ~lastCall.given) => lastCall.keys = << >>

\* the second call was made on a buffer that the first one had not emptied,
\* after the first one had returned a key press
C4_Witness ==
  /\ afterDrain /\ lastCall.op = "getKeys" /\ ~lastCall.given
  /\ lastCall.keys = << >>
  /\ keyBuffer # << >>
  /\ \E id \in EventIds : returnedBy[id] = 1

\* the events of the buffer that a call matches: all of them without keyList
Matched(buffer, call) ==
  SelectSeq(buffer, LAMBDA k : call.given => InKeyList(k, call.keyList))

\* C5: with timeStamped = true the i-th returned pair carries the timestamp of
\* the i-th matched event of the buffer.
C5_TimestampsOfMatched ==
  [][(lastCall'.op = "getKeys" /\ lastCall'.timeStamped)
       => [i \in 1..Len(lastCall'.keys) |-> lastCall'.keys[i][2]]
          = [i \in 1..Len(Matched(keyBuffer, lastCall')) |->
               Matched(keyBuffer, lastCall')[i].timestamp]]_vars

\* C6: every captured event is in exactly one condition: in the buffer (once),
\* returned by exactly one getKeys call, or removed by clearKeys.
C6_OneFate ==
  \A id \in EventIds :
    Cardinality({ i \in 1..Len(keyBuffer) : keyBuffer[i].id = id })
      + returnedBy[id]
      + (IF id \in cleared THEN 1 ELSE 0)
    = (IF id <= captured THEN 1 ELSE 0)

\* one event in each condition
C6_Witness ==
  /\ captured = 3
  /\ \E a, b, c \in EventIds :
       /\ BufferIds = <<a>>
       /\ returnedBy[b] = 1
       /\ c \in cleared

(***************************************************************************)
(* Properties of the deferred updates (SpecDraw).                          *)
(***************************************************************************)
\* C7: the renderer never draws a frame while a stimulus of the draw list has
\* a pending update.
C7_NoPendingDrawn ==
  lastRender.drawnPending \cap Range(drawList) = {}

\* C7, amended: the stimuli that the renderer call of a render() draws with a
\* pending update are those that the _refresh of the same render(), which
\* follows the renderer call, detaches, updates and reattaches.
C7_UpdatedAfterDraw ==
  /\ Range(lastRender.updated) = lastRender.drawnPending
  /\ Len(lastRender.updated) = Cardinality(lastRender.drawnPending)

\* a render() drew a flagged stimulus and then updated it
C7_Witness ==
  /\ justRendered
  /\ lastRender.drawnPending # {}
  /\ lastRender.updated # << >>

(***************************************************************************)
(* Properties of the flip protocol (SpecFlip).                             *)
(***************************************************************************)
\* C8: a callback registered by one callOnFlip call is invoked once, and the
\* registration is cleared by the render() that invokes it.
C8_OneShot ==
  /\ invocations <= 1
  /\ (justRendered /\ lastRender.invoked # << >> /\ pending = << >>)
       => flipCallback = Undefined

\* C8, amended: a registered callback is invoked once by every render() that
\* follows its registration, and render() does not clear the registration.
C8_EveryFlip ==
  /\ flipCallback # Undefined => invocations = frameCount - regFrame
  /\ (justRendered /\ lastRender.invoked # << >>) => flipCallback # Undefined

\* one registration, invoked by two render() calls
C8_Witness ==
  /\ justRendered
  /\ invocations = 2
  /\ flipCallback # Undefined

\* C9: the render() that follows several callOnFlip calls invokes the last
\* registered callback only, with the arguments of that registration.
C9_LastWins ==
  lastRender.registered # << >>
    => lastRender.invoked = << lastRender.registered[Len(lastRender.registered)] >>

\* two registrations with different functions and arguments before a render()
C9_Witness ==
  /\ justRendered
  /\ Len(lastRender.registered) = 2
  /\ lastRender.registered[1].fn # lastRender.registered[2].fn
  /\ lastRender.registered[1].args # lastRender.registered[2].args
  /\ lastRender.invoked = << lastRender.registered[2] >>

\* C10: every message of logOnFlip is dispatched exactly once, by the first
\* render() after its enqueue, in the order of the enqueues, and the queue is
\* empty after each flush.
C10_LoggedOnce ==
  /\ \A m \in 1..enqueued :
       LET inQueue == { i \in 1..Len(msgToBeLogged) : msgToBeLogged[i].msg = m }
           inLog == { i \in 1..Len(logger) : logger[i].msg = m }
       IN  \/ /\ Cardinality(inQueue) = 1
              /\ inLog = {}
              /\ enqueuedAt[m] = frameCount
           \/ /\ inQueue = {}
              /\ Cardinality(inLog) = 1
              /\ \A i \in inLog : logger[i].frame = enqueuedAt[m] + 1
  /\ \A i, j \in 1..Len(logger) : i < j => logger[i].msg < logger[j].msg
  /\ lastRender.afterFlush = << >>

\* two messages flushed by the first render(), and a later render()
C10_Witness ==
  /\ Len(logger) = 2
  /\ logger[1].frame = 1 /\ logger[2].frame = 1
  /\ frameCount >= 2

\* C11: the entries dispatched by one render() all carry the same timestamp,
\* the one reading of the clock made by that flush.
C11_OneTimestamp ==
  \A i, j \in 1..Len(logger) :
    logger[i].frame = logger[j].frame => logger[i].logTime = logger[j].logTime

\* two entries flushed by the second render(), after the clock was read by
\* the first one
C11_Witness ==
  /\ Len(logger) = 2
  /\ logger[1].frame = 2 /\ logger[2].frame = 2
  /\ logger[1].msg # logger[2].msg

\* C19: in a render() the log queue is flushed before the flip callback is
\* called: every dispatched entry was enqueued before the render() that
\* dispatched it began, and a message that the flip callback enqueues with
\* logOnFlip is still in the queue, undispatched, when that render() returns.
C19_FlushBeforeCallback ==
  /\ \A i \in 1..Len(logger) : enqueuedAt[logger[i].msg] < logger[i].frame
  /\ (justRendered /\ lastRender.invoked # << >> /\ lastRender.invoked[1].fn = "log")
       => /\ msgToBeLogged = << [msg |-> enqueued] >>
          /\ enqueuedAt[enqueued] = frameCount
          /\ \A i \in 1..Len(logger) : logger[i].msg # enqueued

\* a render() that dispatched an entry and then called a flip callback that
\* enqueued another message
C19_Witness ==
  /\ justRendered
  /\ lastRender.invoked # << >> /\ lastRender.invoked[1].fn = "log"
  /\ Len(logger) = 1 /\ logger[1].frame = frameCount
  /\ Len(msgToBeLogged) = 1

(***************************************************************************)
(* More properties of the deferred updates (SpecDraw).                     *)
(***************************************************************************)
Occurrences(seq, x) == Cardinality({ i \in 1..Len(seq) : seq[i] = x })

\* C12: a render() calls the update of every flagged stimulus of the draw
\* list once and of no other stimulus, and leaves the draw list as it is.
C12_UpdatedOnce ==
  [][frameCount' # frameCount
       => /\ drawList' = drawList
          /\ \A s \in Stims :
               Occurrences(lastRender'.updated, s)
                 = (IF s \in Range(drawList) /\ needUpdate[s] THEN 1 ELSE 0)]_vars

\* a render() with two stimuli in the draw list, one of them flagged
C12_Witness ==
  /\ justRendered
  /\ Len(drawList) = 2
  /\ Len(lastRender.updated) = 1

\* C20: after the update phase of a render() the stimuli of the draw list
\* are, among the children of the root container, in the order of the draw
\* list.
C20_DrawListIsPaintOrder ==
  justRendered
    => SelectSeq(rootChildren, LAMBDA c : c \in Range(drawList)) = drawList

(***************************************************************************)
(* More properties of the key buffer (SpecKeys).                           *)
(***************************************************************************)
\* C18: getKeys({keyList}) leaves in the buffer every event that carries a
\* native code which is not in the normalized keyList: the keyCode is looked
\* up only for the events without a native code.
C18_FallbackOnlyWithoutCode ==
  [][(lastCall'.op = "getKeys" /\ lastCall'.given)
       => SelectSeq(keyBuffer', LAMBDA k : k.code # Undefined
                      /\ k.code \notin Range(_pyglet2w3c(lastCall'.keyList)))
          = SelectSeq(keyBuffer, LAMBDA k : k.code # Undefined
                      /\ k.code \notin Range(_pyglet2w3c(lastCall'.keyList)))]_vars

C14_ResetOnPress ==
  [][(monotonicTime' # monotonicTime /\ mouseOp'.op = "pointerdown")
       => mouseInfo'.buttons.clocks[mouseOp'.button] = monotonicTime']_vars

(***************************************************************************)
(* Properties of the translation of key names (SpecTranslate).             *)
(***************************************************************************)
\* C15: for every W3C code of the reverse map, _pyglet2w3c applied to the
\* list of its pyglet name returns the list of that code.
C15_RoundTrip ==
  trCode # Undefined => trOut = << trCode >>

\* the code "NumpadEnter" went to "num_enter" and back
C15_Witness ==
  /\ trCode = "NumpadEnter"
  /\ trIn = << "num_enter" >>
  /\ trOut = << "NumpadEnter" >>

\* C16: _pyglet2w3c returns a list as long as its input, with the mapped
\* code where the name is a name of the pyglet map and the name itself
\* elsewhere.
C16_MappedOrUnchanged ==
  /\ Len(trOut) = Len(trIn)
  /\ \A i \in 1..Len(trIn) :
       trOut[i] = (IF trIn[i] \in DOMAIN pygletMap THEN pygletMap[trIn[i]]
                   ELSE trIn[i])

(***************************************************************************)
(* Properties of the resize listener (SpecResize).                         *)
(***************************************************************************)
\* C17: after every _onResize the size is that of the browser window, the
\* root container is at (width / 2, height / 2) with y-scale -1, and a call
\* that follows another one with the same extents changes nothing.
C17_OnResizeIdempotent ==
  [][resizeCalls' > resizeCalls
       => /\ size' = <<innerWidth', innerHeight'>>
          /\ \A i \in 1..2 :
               /\ rootContainer'.position[i].halves \in {0, 1}
               /\ 2 * rootContainer'.position[i].whole
                    + rootContainer'.position[i].halves = size'[i]
          /\ rootContainer'.scaleY = -1
          /\ resizeCalls >= 1
               => <<size', rendererSize', rootContainer'>>
                    = <<size, rendererSize, rootContainer>>]_vars

\* two calls of _onResize in a browser window of an odd width that is not
\* the one the Window was constructed in
C17_Witness ==
  /\ resizeCalls = 2
  /\ innerWidth % 2 = 1 /\ innerWidth # StartWidth
  /\ size = <<innerWidth, innerHeight>>
  /\ rootContainer.position[1].halves = 1

\* an event whose code has no entry in the reverse pyglet map and whose
\* keyCode has no entry in the keycode map
Unmapped(key) ==
  /\ Lookup(reversePygletMap, key.code) = Undefined
  /\ LookupNumber(keycodeMap, key.keyCode) = Undefined

RECURSIVE SumOfDeltas(_, _)
\* the sum, on axis i, of the wheel movements of the set deltas, each taken
\* as often as it has been received when the step is done
SumOfDeltas(deltas, i) ==
  IF deltas = {} THEN 0
  ELSE LET delta == CHOOSE d \in deltas : TRUE
       IN  wheelReceived'[delta] * delta[i] + SumOfDeltas(deltas \ {delta}, i)

=============================================================================
